---- MODULE Spec2Model ----
(* A model of edit_distance.py: one alignment request over a reference r   *)
(* and a hypothesis h.  The request interns the tokens, fills the cost and *)
(* backtrace matrices cell by cell, replays the backtrace three times      *)
(* (count_ops, make_alignment_table, make_ref_to_hyp_alignment_table) and  *)
(* then translates intervals through the two alignment tables.             *)
EXTENDS Integers, Sequences, FiniteSets, TLC

MaxLen == 2
NumTokens == 3
Slack == 1

UNSET == -1
DELETE == 0
INSERT == 1
MATCH == 2
SUBSTITUTE == 3

Tokens == 1..NumTokens

TokenSeqs == UNION {[1..k -> Tokens] : k \in 0..MaxLen}

VARIABLES r, h, pc, tok2i, rix, hix, d, b, ci, cj, e,
          i, j, steps, n_del, n_ins, n_subst, wer, aHyp, aRef, calls

vars == <<r, h, pc, tok2i, rix, hix, d, b, ci, cj, e,
          i, j, steps, n_del, n_ins, n_subst, wer, aHyp, aRef, calls>>

m == Len(r)
n == Len(h)

-----------------------------------------------------------------------------
(* Symbol interner *)

\* the dictionary after str_to_int(tok, tok2i) has run
str_to_int_dict(tok, t2i) ==
    IF tok \in DOMAIN t2i THEN t2i
    ELSE t2i @@ (tok :> Cardinality(DOMAIN t2i))

\* the code str_to_int(tok, tok2i) returns
str_to_int(tok, t2i) == str_to_int_dict(tok, t2i)[tok]

\* the dictionary after the first k tokens of l went through str_to_int
RECURSIVE dict_after(_, _, _)
dict_after(l, k, t2i) ==
    IF k = 0 THEN t2i
    ELSE str_to_int_dict(l[k], dict_after(l, k - 1, t2i))

\* the array str_list_to_int_array(l, tok2i) returns: cell 0 is -1
str_list_to_int_array(l, t2i) ==
    [k \in 0..Len(l) |->
        IF k = 0 THEN -1 ELSE str_to_int(l[k], dict_after(l, k - 1, t2i))]

-----------------------------------------------------------------------------
(* Edit-distance engine *)

\* d = zeros; d[:, 0] = range(m+1); d[0, :] = range(n+1)
InitD(mm, nn) ==
    [x \in 0..mm |-> [y \in 0..nn |->
        IF x = 0 THEN y ELSE IF y = 0 THEN x ELSE 0]]

\* b = ones * -1; b[1:, 0] = 0; b[0, 1:] = 1
InitB(mm, nn) ==
    [x \in 0..mm |-> [y \in 0..nn |->
        IF x = 0 /\ y >= 1 THEN INSERT
        ELSE IF y = 0 /\ x >= 1 THEN DELETE
        ELSE UNSET]]

subst_cost(rx, hx, x, y) == IF rx[x] = hx[y] THEN 0 ELSE 1

del_ins_subst_double(dd, x, y, sc) ==
    <<dd[x - 1][y] + 1, dd[x][y - 1] + 1, dd[x - 1][y - 1] + 2 * sc>>

del_ins_subst_free_del(dd, x, y, sc) ==
    <<dd[x - 1][y], dd[x][y - 1] + 1, dd[x - 1][y - 1] + sc>>

\* the candidate tuple, 1-indexed here: <<deletion, insertion, diagonal>>
del_ins_subst(dd, x, y, sc) ==
    <<dd[x - 1][y] + 1, dd[x][y - 1] + 1, dd[x - 1][y - 1] + sc>>

argmin_last(t) ==
    (CHOOSE k \in 1..Len(t) :
        /\ \A l \in 1..Len(t) : t[k] <= t[l]
        /\ \A l \in (k + 1)..Len(t) : t[l] > t[k]) - 1

\* np.argmin: the 0-based index of the first minimal element
argmin(t) ==
    (CHOOSE k \in 1..Len(t) :
        /\ \A l \in 1..Len(t) : t[k] <= t[l]
        /\ \A l \in 1..(k - 1) : t[l] > t[k]) - 1

backtrace_label_no_flag(min_arg, sc) == min_arg

\* the label stored in b[i, j]: min_arg, plus the subst flag on the diagonal
backtrace_label(min_arg, sc) ==
    IF min_arg = 2 THEN min_arg + sc ELSE min_arg

-----------------------------------------------------------------------------
(* Backtrace walk *)

move_swapped(bij, x, y) ==
    IF bij = 0 THEN <<x, y - 1>>
    ELSE IF bij = 1 THEN <<x - 1, y>>
    ELSE <<x - 1, y - 1>>

\* the index update of one loop iteration of the walk
move(bij, x, y) ==
    IF bij = 0 THEN <<x - 1, y>>
    ELSE IF bij = 1 THEN <<x, y - 1>>
    ELSE <<x - 1, y - 1>>

\* n_subst after one loop iteration of count_ops
count_subst(bij, k) == IF bij = 3 THEN k + 1 ELSE k

hyp_table_step_after_move(a, bb, x, y) ==
    LET nxt == move(bb[x][y], x, y)
    IN  [a EXCEPT ![nxt[2]] = <<nxt[1]>> \o @]

\* the table after one loop iteration of make_alignment_table
hyp_table_step(a, bb, x, y) == [a EXCEPT ![y] = <<x>> \o @]

ref_table_step_skip_slot0(a, bb, x, y) ==
    IF x = 0 THEN a ELSE [a EXCEPT ![x] = <<y>> \o @]

\* the table after one loop iteration of make_ref_to_hyp_alignment_table
ref_table_step(a, bb, x, y) == [a EXCEPT ![x] = <<y>> \o @]

-----------------------------------------------------------------------------
(* Interval mapper *)

\* Python list indexing: the slot a[k] reads, or -1 when it raises IndexError
list_index(len, k) ==
    IF 0 <= k /\ k < len THEN k
    ELSE IF -len <= k /\ k < 0 THEN len + k
    ELSE -1

IndexError == [exc |-> "IndexError", val |-> <<>>]
Returns(x, y) == [exc |-> "", val |-> <<x, y>>]

\* a[s+1][0] and a[e+1][-1], shifted back to 0-based
lookup(a, ivl, shift) ==
    LET len == Cardinality(DOMAIN a)
        k1 == list_index(len, ivl[1] + 1)
        k2 == list_index(len, ivl[2] + 1)
    IN  IF k1 = -1 THEN IndexError
        ELSE IF a[k1] = <<>> THEN IndexError
        ELSE IF k2 = -1 THEN IndexError
        ELSE IF a[k2] = <<>> THEN IndexError
        ELSE Returns(a[k1][1] - shift, a[k2][Len(a[k2])] - shift)

interval_hyp_to_ref(a, h_ivl) == lookup(a, h_ivl, 1)

interval_ref_to_hyp_one_based(a, r_ivl) == lookup(a, r_ivl, 0)

interval_ref_to_hyp(a, r_ivl) == lookup(a, r_ivl, 1)

\* the intervals a caller may pass for a sequence of length len
Intervals(len) == (-Slack..(len - 1 + Slack)) \X (-Slack..(len - 1 + Slack))

-----------------------------------------------------------------------------
(* The request as a state machine *)

Init ==
    /\ r \in TokenSeqs
    /\ h \in TokenSeqs
    /\ pc = "edit_distance"
    /\ tok2i = <<>>
    /\ rix = <<>>
    /\ hix = <<>>
    /\ d = <<>>
    /\ b = <<>>
    /\ ci = 0
    /\ cj = 0
    /\ e = 0
    /\ i = 0
    /\ j = 0
    /\ steps = 0
    /\ n_del = 0
    /\ n_ins = 0
    /\ n_subst = 0
    /\ wer = <<>>
    /\ aHyp = <<>>
    /\ aRef = <<>>
    /\ calls = <<>>

\* edit_distance, up to the start of the loops
Setup ==
    /\ pc = "edit_distance"
    /\ tok2i' = dict_after(h, n, dict_after(r, m, <<>>))
    /\ rix' = str_list_to_int_array(r, <<>>)
    /\ hix' = str_list_to_int_array(h, dict_after(r, m, <<>>))
    /\ d' = InitD(m, n)
    /\ b' = InitB(m, n)
    /\ ci' = 1
    /\ cj' = 1
    /\ pc' = "fill"
    /\ UNCHANGED <<r, h, e, i, j, steps, n_del, n_ins, n_subst, wer,
                   aHyp, aRef, calls>>

\* one iteration of the inner loop of edit_distance
FillCell ==
    /\ pc = "fill"
    /\ cj <= n
    /\ ci <= m
    /\ LET sc == subst_cost(rix, hix, ci, cj)
           cand == del_ins_subst(d, ci, cj, sc)
           min_arg == argmin(cand)
       IN  /\ d' = [d EXCEPT ![ci][cj] = cand[min_arg + 1]]
           /\ b' = [b EXCEPT ![ci][cj] = backtrace_label(min_arg, sc)]
    /\ IF ci < m
          THEN ci' = ci + 1 /\ cj' = cj
          ELSE ci' = 1 /\ cj' = cj + 1
    /\ UNCHANGED <<r, h, pc, tok2i, rix, hix, e, i, j, steps,
                   n_del, n_ins, n_subst, wer, aHyp, aRef, calls>>

\* the loops are over: e = d[m, n]; return e, b
ReturnDistance ==
    /\ pc = "fill"
    /\ cj > n \/ ci > m
    /\ e' = d[m][n]
    /\ pc' = "returned"
    /\ UNCHANGED <<r, h, tok2i, rix, hix, d, b, ci, cj, i, j, steps,
                   n_del, n_ins, n_subst, wer, aHyp, aRef, calls>>

\* calc_wer calls count_ops, which sets its counters and indices
CountOpsBegin ==
    /\ pc = "returned"
    /\ n_del' = 0 /\ n_ins' = 0 /\ n_subst' = 0
    /\ i' = m /\ j' = n /\ steps' = 0
    /\ pc' = "count_ops"
    /\ UNCHANGED <<r, h, tok2i, rix, hix, d, b, ci, cj, e, wer,
                   aHyp, aRef, calls>>

\* one iteration of the while loop of count_ops
CountOpsStep ==
    /\ pc = "count_ops"
    /\ ~(i = 0 /\ j = 0)
    /\ n_del' = IF b[i][j] = 0 THEN n_del + 1 ELSE n_del
    /\ n_ins' = IF b[i][j] = 0 THEN n_ins
                ELSE IF b[i][j] = 1 THEN n_ins + 1 ELSE n_ins
    /\ n_subst' = IF b[i][j] = 0 \/ b[i][j] = 1 THEN n_subst
                  ELSE count_subst(b[i][j], n_subst)
    /\ i' = move(b[i][j], i, j)[1]
    /\ j' = move(b[i][j], i, j)[2]
    /\ steps' = steps + 1
    /\ UNCHANGED <<r, h, pc, tok2i, rix, hix, d, b, ci, cj, e, wer,
                   aHyp, aRef, calls>>

\* count_ops returns and calc_wer returns m, e, n_ins, n_del, n_subst
CalcWerReturn ==
    /\ pc = "count_ops"
    /\ i = 0 /\ j = 0
    /\ wer' = <<m, e, n_ins, n_del, n_subst>>
    /\ pc' = "calc_wer_returned"
    /\ UNCHANGED <<r, h, tok2i, rix, hix, d, b, ci, cj, e, i, j, steps,
                   n_del, n_ins, n_subst, aHyp, aRef, calls>>

\* align_hyp_to_ref calls make_alignment_table, which sets a, i, j
MakeAlignmentTableBegin ==
    /\ pc = "calc_wer_returned"
    /\ aHyp' = [y \in 0..n |-> <<>>]
    /\ i' = m /\ j' = n /\ steps' = 0
    /\ pc' = "make_alignment_table"
    /\ UNCHANGED <<r, h, tok2i, rix, hix, d, b, ci, cj, e,
                   n_del, n_ins, n_subst, wer, aRef, calls>>

\* one iteration of the while loop of make_alignment_table
MakeAlignmentTableStep ==
    /\ pc = "make_alignment_table"
    /\ ~(i = 0 /\ j = 0)
    /\ aHyp' = hyp_table_step(aHyp, b, i, j)
    /\ i' = move(b[i][j], i, j)[1]
    /\ j' = move(b[i][j], i, j)[2]
    /\ steps' = steps + 1
    /\ UNCHANGED <<r, h, pc, tok2i, rix, hix, d, b, ci, cj, e,
                   n_del, n_ins, n_subst, wer, aRef, calls>>

\* make_alignment_table returns; align_ref_to_hyp calls
\* make_ref_to_hyp_alignment_table, which sets a, i, j
MakeRefToHypAlignmentTableBegin ==
    /\ pc = "make_alignment_table"
    /\ i = 0 /\ j = 0
    /\ aRef' = [x \in 0..m |-> <<>>]
    /\ i' = m /\ j' = n /\ steps' = 0
    /\ pc' = "make_ref_to_hyp_alignment_table"
    /\ UNCHANGED <<r, h, tok2i, rix, hix, d, b, ci, cj, e,
                   n_del, n_ins, n_subst, wer, aHyp, calls>>

\* one iteration of the while loop of make_ref_to_hyp_alignment_table
MakeRefToHypAlignmentTableStep ==
    /\ pc = "make_ref_to_hyp_alignment_table"
    /\ ~(i = 0 /\ j = 0)
    /\ aRef' = ref_table_step(aRef, b, i, j)
    /\ i' = move(b[i][j], i, j)[1]
    /\ j' = move(b[i][j], i, j)[2]
    /\ steps' = steps + 1
    /\ UNCHANGED <<r, h, pc, tok2i, rix, hix, d, b, ci, cj, e,
                   n_del, n_ins, n_subst, wer, aHyp, calls>>

\* make_ref_to_hyp_alignment_table returns: both tables are built
TablesReturn ==
    /\ pc = "make_ref_to_hyp_alignment_table"
    /\ i = 0 /\ j = 0
    /\ pc' = "map"
    /\ UNCHANGED <<r, h, tok2i, rix, hix, d, b, ci, cj, e, i, j, steps,
                   n_del, n_ins, n_subst, wer, aHyp, aRef, calls>>

\* a caller maps a hypothesis interval through the hypothesis-indexed table
IntervalHypToRef ==
    /\ pc = "map"
    /\ calls = <<>>
    /\ \E h_ivl \in Intervals(n) :
         calls' = <<[fn |-> "interval_hyp_to_ref", arg |-> h_ivl,
                     ret |-> interval_hyp_to_ref(aHyp, h_ivl)]>>
    /\ UNCHANGED <<r, h, pc, tok2i, rix, hix, d, b, ci, cj, e, i, j, steps,
                   n_del, n_ins, n_subst, wer, aHyp, aRef>>

\* a caller maps a reference interval through the reference-indexed table:
\* any interval as a first call, or the interval the previous call returned
IntervalRefToHyp ==
    /\ pc = "map"
    /\ \E r_ivl \in Intervals(m) \cup
                    {calls[k].ret.val : k \in 1..Len(calls)} :
         /\ \/ calls = <<>> /\ r_ivl \in Intervals(m)
            \/ /\ Len(calls) = 1
               /\ calls[1].fn = "interval_hyp_to_ref"
               /\ calls[1].ret.exc = ""
               /\ r_ivl = calls[1].ret.val
         /\ calls' = Append(calls,
                        [fn |-> "interval_ref_to_hyp", arg |-> r_ivl,
                         ret |-> interval_ref_to_hyp(aRef, r_ivl)])
    /\ UNCHANGED <<r, h, pc, tok2i, rix, hix, d, b, ci, cj, e, i, j, steps,
                   n_del, n_ins, n_subst, wer, aHyp, aRef>>

Next ==
    \/ Setup
    \/ FillCell
    \/ ReturnDistance
    \/ CountOpsBegin
    \/ CountOpsStep
    \/ CalcWerReturn
    \/ MakeAlignmentTableBegin
    \/ MakeAlignmentTableStep
    \/ MakeRefToHypAlignmentTableBegin
    \/ MakeRefToHypAlignmentTableStep
    \/ TablesReturn
    \/ IntervalHypToRef
    \/ IntervalRefToHyp

Spec == Init /\ [][Next]_vars

-----------------------------------------------------------------------------
(* Properties *)

Min3(t) == CHOOSE v \in {t[1], t[2], t[3]} : \A k \in 1..3 : v <= t[k]

\* the Levenshtein distance, by recursion on the heads of the two sequences
RECURSIVE Lev(_, _)
Lev(s, t) ==
    IF s = <<>> THEN Len(t)
    ELSE IF t = <<>> THEN Len(s)
    ELSE IF Head(s) = Head(t) THEN Lev(Tail(s), Tail(t))
    ELSE 1 + Min3(<<Lev(Tail(s), t), Lev(s, Tail(t)), Lev(Tail(s), Tail(t))>>)

MatricesBuilt == pc \notin {"edit_distance", "fill"}

Walking == pc \in {"count_ops", "make_alignment_table",
                   "make_ref_to_hyp_alignment_table"}

\* the length of the sequence a mapper's input interval ranges over
SourceLen(fn) == IF fn = "interval_hyp_to_ref" THEN n ELSE m

\* the length of the sequence a mapper's output interval ranges over
TargetLen(fn) == IF fn = "interval_hyp_to_ref" THEN m ELSE n

ValidInterval(ivl, len) ==
    0 <= ivl[1] /\ ivl[1] <= ivl[2] /\ ivl[2] < len

\* the ascending run <<1, ..., k>>
Run(k) == [x \in 1..k |-> x]

\* C1: calc_wer returns (m, e, n_ins, n_del, n_subst) where e is the
\* distance d[m][n] and e = n_ins + n_del + n_subst.
C1_DistanceIsSumOfOps ==
    wer # <<>> =>
        /\ wer[1] = m
        /\ wer[2] = d[m][n]
        /\ wer[2] = wer[3] + wer[4] + wer[5]

C1_Witness ==
    /\ wer # <<>>
    /\ wer[3] >= 1
    /\ wer[5] >= 1
    /\ wer[2] = 2

\* C2: the value e that edit_distance returns is the Levenshtein distance
\* of r and h, as given by an independent recursive definition.
C2_DistanceIsLevenshtein ==
    pc = "returned" => e = Lev(r, h)

C2_Witness ==
    pc = "returned" /\ m = MaxLen /\ n = MaxLen /\ e = 2

\* C3: in every cell with i, j >= 1 the backtrace label is the first
\* minimal candidate in the order deletion, insertion, diagonal; the
\* diagonal label is MATCH when the tokens are equal, else SUBSTITUTE.
C3_TieBreak ==
    MatricesBuilt =>
        \A x \in 1..m, y \in 1..n :
            LET del == d[x - 1][y] + 1
                ins == d[x][y - 1] + 1
                eq == r[x] = h[y]
                diag == d[x - 1][y - 1] + (IF eq THEN 0 ELSE 1)
                mn == Min3(<<del, ins, diag>>)
            IN  /\ del = mn => b[x][y] = DELETE
                /\ b[x][y] = INSERT <=> (ins = mn /\ del > mn)
                /\ b[x][y] \in {MATCH, SUBSTITUTE} <=>
                       (diag < del /\ diag < ins)
                /\ b[x][y] = MATCH => eq
                /\ b[x][y] = SUBSTITUTE => ~eq

C3_Witness ==
    /\ pc = "returned"
    /\ \E x \in 1..m, y \in 1..n :
           /\ d[x - 1][y] + 1 = d[x][y]
           /\ d[x - 1][y - 1] + (IF r[x] = h[y] THEN 0 ELSE 1) = d[x][y]
           /\ b[x][y] = DELETE
    /\ \E x \in 1..m, y \in 1..n :
           /\ d[x][y - 1] + 1 = d[x][y]
           /\ d[x - 1][y - 1] + 1 = d[x][y]
           /\ b[x][y] = INSERT
    /\ \E x \in 1..m, y \in 1..n : b[x][y] = SUBSTITUTE

\* C4: a valid hypothesis interval mapped to the reference and back is
\* contained in the interval that comes back.
C4_RoundTripContains ==
    (/\ Len(calls) = 2
     /\ ValidInterval(calls[1].arg, n)) =>
        /\ calls[2].ret.exc = ""
        /\ calls[2].ret.val[1] <= calls[1].arg[1]
        /\ calls[1].arg[2] <= calls[2].ret.val[2]

C4_Witness ==
    /\ Len(calls) = 2
    /\ ValidInterval(calls[1].arg, n)
    /\ calls[2].arg = calls[1].ret.val
    /\ calls[2].ret.exc = ""
    /\ calls[2].ret.val[1] < calls[1].arg[1]

\* C5: the interval mappers raise whenever the input interval has a bound
\* outside [0, length of the source sequence) or has start > end.
C5_MalformedIntervalRaises ==
    \A k \in 1..Len(calls) :
        ~ValidInterval(calls[k].arg, SourceLen(calls[k].fn)) =>
            calls[k].ret.exc = "IndexError"

\* C6 as stated: d[i][0] = i, d[0][j] = j, and d grows by 0 or 1 per step
\* along both axes.
C6_CostMatrixMonotone ==
    MatricesBuilt =>
        /\ \A x \in 0..m : d[x][0] = x
        /\ \A y \in 0..n : d[0][y] = y
        /\ \A x \in 0..(m - 1), y \in 0..n :
               d[x + 1][y] - d[x][y] \in {0, 1}
        /\ \A x \in 0..m, y \in 0..(n - 1) :
               d[x][y + 1] - d[x][y] \in {0, 1}

\* C6 amended: d[i][0] = i, d[0][j] = j, and along both axes neighbouring
\* cells of d differ by at most 1, in either direction.
C6_CostMatrixLipschitz ==
    MatricesBuilt =>
        /\ \A x \in 0..m : d[x][0] = x
        /\ \A y \in 0..n : d[0][y] = y
        /\ \A x \in 0..(m - 1), y \in 0..n :
               d[x + 1][y] - d[x][y] \in {-1, 0, 1}
        /\ \A x \in 0..m, y \in 0..(n - 1) :
               d[x][y + 1] - d[x][y] \in {-1, 0, 1}

C6_Witness ==
    /\ pc = "returned"
    /\ m = MaxLen
    /\ \E x \in 0..(m - 1), y \in 1..n : d[x + 1][y] = d[x][y] - 1
    /\ \E x \in 1..m, y \in 0..(n - 1) : d[x][y + 1] = d[x][y] - 1
    /\ \E x \in 1..(m - 1), y \in 1..n : d[x + 1][y] = d[x][y] + 1

C8_GroupsNonEmpty ==
    pc = "map" =>
        /\ \A p \in 1..n : aHyp[p] # <<>>
        /\ \A p \in 1..m : aRef[p] # <<>>
        /\ \A k \in 1..Len(calls) :
               ValidInterval(calls[k].arg, SourceLen(calls[k].fn)) =>
                   calls[k].ret.exc = ""

C8_Witness ==
    /\ pc = "map"
    /\ m = MaxLen
    /\ n = 1
    /\ Len(calls) = 1
    /\ calls[1].fn = "interval_ref_to_hyp"
    /\ calls[1].arg = <<0, m - 1>>
    /\ calls[1].ret.exc = ""

\* C9: the walk stays inside the matrix, takes at most m + n steps, never
\* reads an UNSET cell, takes only DELETE steps in column 0 and only INSERT
\* steps in row 0, and its loop ends at (0, 0).
C9_WalkTerminates ==
    /\ Walking =>
        /\ 0 <= i /\ i <= m
        /\ 0 <= j /\ j <= n
        /\ steps + i + j <= m + n
        /\ ~(i = 0 /\ j = 0) =>
               /\ b[i][j] # UNSET
               /\ j = 0 => b[i][j] = DELETE
               /\ i = 0 => b[i][j] = INSERT
    /\ pc \in {"calc_wer_returned", "map"} => i = 0 /\ j = 0

C9_Witness ==
    /\ pc = "make_ref_to_hyp_alignment_table"
    /\ i = 0
    /\ j = 0
    /\ steps = MaxLen
    /\ aHyp[0] # <<>>
    /\ n >= 1

\* C10: on a valid source interval the mappers return a valid 0-based
\* inclusive interval of the target sequence.
C10_ReturnedIntervalValid ==
    \A k \in 1..Len(calls) :
        ValidInterval(calls[k].arg, SourceLen(calls[k].fn)) =>
            /\ calls[k].ret.exc = ""
            /\ ValidInterval(calls[k].ret.val, TargetLen(calls[k].fn))

====
